---- MODULE Spec2Model ----
(***************************************************************************)
(* tooljob: Batch (job enumeration, naming, hashing, orchestration) and    *)
(* its Tracker backends (FileTracker, MultifileTracker, SqlTracker).       *)
(*                                                                         *)
(* Python strings are sequences of one-character strings, so that          *)
(* concatenation, comparison and splitting are computed, not assumed.      *)
(* Python indices are 0-based: a list of indices is a TLA+ sequence whose  *)
(* elements are the 0-based indices.                                       *)
(***************************************************************************)
EXTENDS Integers, Sequences, FiniteSets, TLC

\* ------------------------------------------------------------------ bounds

\* number of jobs of the batch (len(self.jobs))
NJobs == 3
\* size of the worker pool handed to parallel_execute (n_processes)
NProcesses == 2
\* number of orchestrate_jobs() calls made against the same backend
MaxRuns == 2

\* ------------------------------------------------------------------ strings

\* the characters the model uses, in code-point order (Python compares
\* strings by code point)
Ascii ==
    << " ", "\"", ",", "-", ".", "/",
       "0", "1", "2", "3", "4", "5", "6", "7", "8", "9", ":",
       "F", "T", "[", "]", "_",
       "a", "b", "c", "d", "e", "f", "g", "h", "i", "j", "k", "l", "m",
       "n", "o", "p", "q", "r", "s", "t", "u", "v", "w", "x", "y", "z",
       "{", "}" >>

Ord(c) == CHOOSE k \in 1..Len(Ascii) : Ascii[k] = c

\* a < b for Python str
RECURSIVE StrLess(_, _)
StrLess(a, b) ==
    IF a = <<>> THEN b # <<>>
    ELSE IF b = <<>> THEN FALSE
    ELSE IF Head(a) = Head(b) THEN StrLess(Tail(a), Tail(b))
    ELSE Ord(Head(a)) < Ord(Head(b))

\* sep.join(tokens)
RECURSIVE Join(_, _)
Join(sep, tokens) ==
    IF tokens = <<>> THEN <<>>
    ELSE IF Len(tokens) = 1 THEN tokens[1]
    ELSE tokens[1] \o sep \o Join(sep, Tail(tokens))

Digits == << "0", "1", "2", "3", "4", "5", "6", "7", "8", "9" >>

\* str(n) for an int
RECURSIVE NatToStr(_)
NatToStr(n) ==
    IF n < 10 THEN << Digits[n + 1] >>
    ELSE NatToStr(n \div 10) \o << Digits[(n % 10) + 1] >>

IntToStr(n) == IF n < 0 THEN << "-" >> \o NatToStr(0 - n) ELSE NatToStr(n)

\* range(n)
Range(n) == [k \in 1..n |-> k - 1]

\* ------------------------------------------------------------------ job data

\* A value of a JobData mapping: t is its Python type, s the text of a str,
\* n the number of an int (and 1/0 for a bool).
StrV(s) == [t |-> "str", s |-> s, n |-> 0]
IntV(n) == [t |-> "int", s |-> <<>>, n |-> n]
BoolV(b) == [t |-> "bool", s |-> <<>>, n |-> IF b THEN 1 ELSE 0]
ListV == [t |-> "list", s |-> <<>>, n |-> 0]

\* isinstance(value, (str, int, bool))
IsScalar(v) == v.t \in {"str", "int", "bool"}

\* str(value) for a scalar
PyStr(v) ==
    IF v.t = "str" THEN v.s
    ELSE IF v.t = "bool"
        THEN (IF v.n = 1 THEN << "T", "r", "u", "e" >>
                         ELSE << "F", "a", "l", "s", "e" >>)
    ELSE IntToStr(v.n)

\* A dict is the sequence of its items in insertion order.
Item(k, v) == [key |-> k, value |-> v]
Dict(items) == [kind |-> "dict", items |-> items]
Scalar(v) == [kind |-> "scalar", items |-> << Item(<<>>, v) >>]

\* the ids of the jobs of the batch
JobIds == << "a", "b", "c", "d", "e", "f" >>

\* self.jobs: [{"id": "a"}, {"id": "b"}, {"id": "c"}, ...]
jobs == [k \in 1..NJobs |-> Dict(<< Item(<< "i", "d" >>, StrV(<< JobIds[k] >>)) >>)]

get_n_jobs == Len(jobs)

Indices == 0..(get_n_jobs - 1)

get_job_data(i) == jobs[i + 1]

\* self.name
batch_name == << "j", "o", "b", "s" >>

get_job_list_name == batch_name

\* sorted(d.items()): insertion sort by key (keys of a dict are distinct)
RECURSIVE InsertItem(_, _)
InsertItem(it, sorted) ==
    IF sorted = <<>> THEN << it >>
    ELSE IF StrLess(it.key, Head(sorted).key) THEN << it >> \o sorted
    ELSE << Head(sorted) >> \o InsertItem(it, Tail(sorted))

RECURSIVE SortedItems(_)
SortedItems(items) ==
    IF items = <<>> THEN <<>>
    ELSE InsertItem(Head(items), SortedItems(Tail(items)))

\* get_job_name(job_data=..., parameters=...): [err, name]; parameters is a
\* sequence of items with str values (<<>> for None).
get_job_name(job_data, parameters) ==
    IF job_data.kind = "scalar" /\ IsScalar(job_data.items[1].value)
    THEN [err |-> "none",
          name |-> get_job_list_name \o PyStr(job_data.items[1].value)]
    ELSE IF job_data.kind = "dict"
    THEN IF \E k \in 1..Len(job_data.items) : ~IsScalar(job_data.items[k].value)
         THEN [err |-> "NotImplementedError", name |-> <<>>]
         ELSE IF \E k \in 1..Len(job_data.items) : job_data.items[k].value.t # "str"
         \* key + '_' + job_data[key] with an int or bool value
         THEN [err |-> "TypeError", name |-> <<>>]
         ELSE LET its == SortedItems(job_data.items)
                  ps == SortedItems(parameters)
                  tokens == [k \in 1..Len(its) |->
                                its[k].key \o << "_" >> \o its[k].value.s]
                  extra == [k \in 1..Len(ps) |->
                                ps[k].key \o << "_" >> \o ps[k].value.s]
              IN [err |-> "none",
                  name |-> get_job_list_name
                             \o Join(<< "_", "_" >>, tokens \o extra)]
    ELSE [err |-> "NotImplementedError", name |-> <<>>]

\* json.dumps(value)
JsonValue(v) ==
    IF v.t = "str" THEN << "\"" >> \o v.s \o << "\"" >>
    ELSE IF v.t = "bool"
        THEN (IF v.n = 1 THEN << "t", "r", "u", "e" >>
                         ELSE << "f", "a", "l", "s", "e" >>)
    ELSE IF v.t = "int" THEN IntToStr(v.n)
    ELSE << "[", "]" >>

\* json.dumps(job_data) without sort_keys
json_dumps_unsorted(job_data) ==
    IF job_data.kind = "scalar" THEN JsonValue(job_data.items[1].value)
    ELSE LET its == job_data.items
             parts == [k \in 1..Len(its) |->
                          << "\"" >> \o its[k].key \o << "\"", ":", " " >>
                              \o JsonValue(its[k].value)]
         IN << "{" >> \o Join(<< ",", " " >>, parts) \o << "}" >>

\* json.dumps(job_data, sort_keys=True)
json_dumps(job_data) ==
    IF job_data.kind = "scalar" THEN JsonValue(job_data.items[1].value)
    ELSE LET its == SortedItems(job_data.items)
             parts == [k \in 1..Len(its) |->
                          << "\"" >> \o its[k].key \o << "\"", ":", " " >>
                              \o JsonValue(its[k].value)]
         IN << "{" >> \o Join(<< ",", " " >>, parts) \o << "}" >>

\* hashlib.md5(s.encode()).hexdigest(): the digest is identified with the
\* text it digests (md5 taken to be collision-free on the texts of the model)
md5(s) == [md5 |-> s]

get_job_hash(job_data) == md5(json_dumps(job_data))

\* ------------------------------------------------------------------ state

VARIABLES
    args,           \* the arguments create_tracker was called with
    ret,            \* the last call of a pure Batch method: op, arg, val
    kind,           \* which Tracker create_tracker built: "file", "multifile", "sql"
    files,          \* the paths that exist on the filesystem
    table,          \* the rows of the SQL table jobs
    outcome,        \* what the concrete execute_job does for each index
    pc,             \* position of orchestrate_jobs: "idle", "serial", "parallel"
    executor,       \* the executor argument of the current/last orchestrate_jobs
    result,         \* how the last orchestrate_jobs ended
    run,            \* number of orchestrate_jobs calls made so far
    remaining_jobs, \* the local remaining_jobs of orchestrate_jobs
    cursor,         \* position of serial_execute's for loop in remaining_jobs
    job,            \* per index: position of run_job and the calls made this run
    prev_ok,        \* the previous orchestrate_jobs ran every remaining job to a normal end
    api             \* the last direct call of a Tracker method and how it ended

vars == << args, ret, kind, files, table, outcome, pc, executor, result, run,
           remaining_jobs, cursor, job, prev_ok, api >>

\* ------------------------------------------------------------------ FileTracker

output_dir == << "o", "u", "t" >>
output_filetype == << "j", "s", "o", "n" >>

\* os.path.join(d, filename)
PathJoin(d, filename) == d \o << "/" >> \o filename

\* os.listdir(d): the names of the entries directly inside d
ListDir(d) ==
    LET prefix == d \o << "/" >>
        inside(p) == /\ Len(p) > Len(prefix)
                     /\ SubSeq(p, 1, Len(prefix)) = prefix
                     /\ \A k \in (Len(prefix) + 1)..Len(p) : p[k] # "/"
    IN { SubSeq(p, Len(d) + 2, Len(p)) : p \in { q \in files : inside(q) } }

FileTracker_get_job_output_filename(i) ==
    get_job_name(get_job_data(i), <<>>).name \o << "." >> \o output_filetype

FileTracker_get_job_output_path(i) ==
    PathJoin(output_dir, FileTracker_get_job_output_filename(i))

\* get_job_output_path(i) for every index: a pure function of the job list,
\* computed once
FilePaths == [i \in Indices |-> FileTracker_get_job_output_path(i)]

\* a test with the sense of os.path.exists inverted
FileTracker_is_job_missing(i) == FilePaths[i] \notin files

\* os.path.exists(path)
FileTracker_is_job_complete(i) == FilePaths[i] \in files

\* the directory-listing override
FileTracker_get_remaining_jobs ==
    SelectSeq(Range(get_n_jobs),
              LAMBDA i : FileTracker_get_job_output_filename(i) \in ListDir(output_dir))

\* ------------------------------------------------------------------ MultifileTracker

\* self.outputs, in insertion order: name -> (output_dir, output_filetype)
OutputNames == << << "x" >>, << "y" >> >>

outputs(output_name) ==
    [output_dir |-> << "o", "u", "t", "_" >> \o output_name,
     output_filetype |-> output_filetype]

MultifileTracker_get_job_output_filename(i, output_name) ==
    get_job_name(get_job_data(i),
                 << Item(<< "o", "u", "t", "p", "u", "t", "_", "n", "a", "m", "e" >>,
                         StrV(output_name)) >>).name
        \o << "." >> \o outputs(output_name).output_filetype

\* the values of get_job_output_paths(i)
MultifileTracker_get_job_output_paths(i) ==
    { PathJoin(outputs(OutputNames[k]).output_dir,
               MultifileTracker_get_job_output_filename(i, OutputNames[k]))
        : k \in 1..Len(OutputNames) }

\* get_job_output_paths(i).values() for every index, computed once
MultifilePaths == [i \in Indices |-> MultifileTracker_get_job_output_paths(i)]

\* the path of the first named output of every index, computed once
FirstOutputPaths ==
    [i \in Indices |->
        PathJoin(outputs(OutputNames[1]).output_dir,
                 MultifileTracker_get_job_output_filename(i, OutputNames[1]))]

\* any() in place of all()
MultifileTracker_is_any_output_present(i) ==
    \E p \in MultifilePaths[i] : p \in files

\* all(os.path.exists(path) for path in paths.values())
MultifileTracker_is_job_complete(i) ==
    \A p \in MultifilePaths[i] : p \in files

\* ------------------------------------------------------------------ SqlTracker

None == "None"
\* the values time.time() returns
Times == { "t1", "t2" }

\* toolsql.select(where_equals={'job_hash': h}, columns=[column],
\* output_format='cell_or_none')
SelectCellOrNone(h, column) ==
    IF \E r \in table : r.job_hash = h
    THEN LET r == CHOOSE r \in table : r.job_hash = h
         IN IF column = "end_time" THEN r.end_time ELSE r.start_time
    ELSE None

\* self.batch.get_job_hash(i=i) for every index, computed once
JobHashes == [i \in Indices |-> get_job_hash(get_job_data(i))]

SqlTracker_get_job_start_time(i) == SelectCellOrNone(JobHashes[i], "start_time")

SqlTracker_get_job_end_time(i) == SelectCellOrNone(JobHashes[i], "end_time")

\* a test of start_time in place of end_time
SqlTracker_is_job_started(i) == SqlTracker_get_job_start_time(i) # None

SqlTracker_is_job_complete(i) == SqlTracker_get_job_end_time(i) # None

\* ------------------------------------------------------------------ Tracker

\* self.tracker.is_job_complete(i), dispatched on the tracker's class
Tracker_is_job_complete(i) ==
    IF kind = "file" THEN FileTracker_is_job_complete(i)
    ELSE IF kind = "multifile" THEN MultifileTracker_is_job_complete(i)
    ELSE SqlTracker_is_job_complete(i)

\* self.tracker.get_remaining_jobs(): only FileTracker overrides the base
\* method, which raises
Tracker_get_remaining_jobs ==
    IF kind = "file"
    THEN [err |-> "none", value |-> FileTracker_get_remaining_jobs]
    ELSE [err |-> "NotImplementedError", value |-> <<>>]

\* self.tracker.get_job_start_time(i): [err, value]. The timestamps of the
\* filesystem are not part of the state: "ctime" and "mtime" stand for
\* whatever os.path.getctime and os.path.getmtime return.
FileTracker_get_job_start_time(i) ==
    [err |-> "none", value |-> IF FilePaths[i] \in files THEN "ctime" ELSE None]

FileTracker_get_job_end_time(i) ==
    [err |-> "none", value |-> IF FilePaths[i] \in files THEN "mtime" ELSE None]

\* min(times) over the output files that exist; min of an empty list raises
MultifileTracker_get_job_start_time(i) ==
    LET times == { p \in MultifilePaths[i] : p \in files }
    IN IF times = {} THEN [err |-> "ValueError", value |-> None]
       ELSE [err |-> "none", value |-> "ctime"]

\* max(times) over the output files that exist; max of an empty list raises
MultifileTracker_get_job_end_time(i) ==
    LET times == { p \in MultifilePaths[i] : p \in files }
    IN IF times = {} THEN [err |-> "ValueError", value |-> None]
       ELSE [err |-> "none", value |-> "mtime"]

Tracker_get_job_start_time(i) ==
    IF kind = "file" THEN FileTracker_get_job_start_time(i)
    ELSE IF kind = "multifile" THEN MultifileTracker_get_job_start_time(i)
    ELSE [err |-> "none", value |-> SqlTracker_get_job_start_time(i)]

Tracker_get_job_end_time(i) ==
    IF kind = "file" THEN FileTracker_get_job_end_time(i)
    ELSE IF kind = "multifile" THEN MultifileTracker_get_job_end_time(i)
    ELSE [err |-> "none", value |-> SqlTracker_get_job_end_time(i)]

\* ------------------------------------------------------------------ create_tracker

\* The keyword arguments of create_tracker: None, or a token for a value
\* that was supplied. outputs is "names" for a list of output names, which
\* rely on the default output_dir and output_filetype, and "specs" for a
\* mapping that gives each output its own output_dir and output_filetype.
NoArgs ==
    [tracker |-> None, output_dir |-> None, output_filetype |-> None,
     outputs |-> None, db_config |-> None, bucket_path |-> None]

TrackerArgs ==
    [tracker : { None, "file", "multifile", "sql", "bucket", "other" },
     output_dir : { None, "output_dir" },
     output_filetype : { None, "output_filetype" },
     outputs : { None, "names", "specs" },
     db_config : { None, "db_config" },
     bucket_path : { None, "bucket_path" }]

\* an inference that looks at db_config first
infer_tracker_sql_first(a) ==
    IF a.tracker # None THEN a.tracker
    ELSE IF a.db_config # None THEN "sql"
    ELSE IF a.output_dir # None /\ a.output_filetype # None THEN "file"
    ELSE IF a.bucket_path # None THEN "bucket"
    ELSE "invalid tracker"

\* create_tracker, "determine tracker": the kind named or inferred
infer_tracker(a) ==
    IF a.tracker # None THEN a.tracker
    ELSE IF a.output_dir # None /\ a.output_filetype # None THEN "file"
    ELSE IF a.db_config # None THEN "sql"
    ELSE IF a.bucket_path # None THEN "bucket"
    ELSE "invalid tracker"

\* MultifileTracker.__init__ with _get_output_dict: an output that names no
\* output_dir or output_filetype needs the default one
MultifileTracker_init(a) ==
    IF a.outputs = "names" /\ (a.output_dir = None \/ a.output_filetype = None)
    THEN "Exception"
    ELSE "none"

\* create_tracker(**a): the set of ways the call can end, each [err, tracker]
\* with tracker "none" when the call raises. The assert statements are
\* executed. The bucket branch imports a module bucket_tracker, which may be
\* missing, and then raises NotImplementedError.
create_tracker(a) ==
    LET t == infer_tracker(a)
        raise(e) == { [err |-> e, tracker |-> "none"] }
        return(k) == { [err |-> "none", tracker |-> k] }
    IN IF t = "invalid tracker" THEN raise("Exception")
       ELSE IF t = "file"
       THEN IF a.output_dir = None \/ a.output_filetype = None
            THEN raise("AssertionError")
            ELSE return("file")
       ELSE IF t = "multifile"
       THEN IF a.outputs = None THEN raise("AssertionError")
            ELSE IF MultifileTracker_init(a) # "none"
            THEN raise(MultifileTracker_init(a))
            ELSE return("multifile")
       ELSE IF t = "sql"
       THEN IF a.db_config = None THEN raise("AssertionError")
            ELSE return("sql")
       ELSE IF t = "bucket"
       THEN raise("ImportError") \cup raise("NotImplementedError")
       ELSE raise("Exception")

\* ------------------------------------------------------------------ hashes

\* an absent (None) keyword argument, and a supplied one
NoneArg == [given |-> FALSE, value |-> << >>]
Given(v) == [given |-> TRUE, value |-> v]

\* Batch.get_job_hash(x) called with one positional argument: x is bound to
\* the parameter i and job_data stays None, so get_job_data(x) evaluates
\* self.jobs[x], which raises TypeError unless x is an int
get_job_hash_positional(x) ==
    IF x.kind = "scalar" /\ x.items[1].value.t \in { "int", "bool" }
    THEN LET n == x.items[1].value.n
         IN IF n \in Indices
            THEN [err |-> "none", hash |-> get_job_hash(get_job_data(n))]
            ELSE [err |-> "IndexError", hash |-> None]
    ELSE [err |-> "TypeError", hash |-> None]

\* Batch.get_job_hashes(indices=..., job_datas=...): [err, hashes]
get_job_hashes(indices, job_datas) ==
    LET ixs == IF indices.given THEN indices.value ELSE Range(get_n_jobs)
        datas == IF job_datas.given THEN job_datas.value
                 ELSE [k \in 1..Len(ixs) |-> get_job_data(ixs[k])]
        hs == [k \in 1..Len(datas) |-> get_job_hash_positional(datas[k])]
        bad == { k \in 1..Len(hs) : hs[k].err # "none" }
    IN IF bad = {}
       THEN [err |-> "none", hashes |-> [k \in 1..Len(hs) |-> hs[k].hash]]
       ELSE [err |-> hs[CHOOSE k \in bad : \A m \in bad : k <= m].err,
             hashes |-> << >>]

\* Batch.get_job_data(i) for any int i: self.jobs[i], where a negative
\* index counts from the end of the list
Batch_get_job_data(i) ==
    IF i >= 0 /\ i < Len(jobs) THEN [err |-> "none", value |-> jobs[i + 1]]
    ELSE IF i < 0 /\ i >= 0 - Len(jobs)
    THEN [err |-> "none", value |-> jobs[Len(jobs) + i + 1]]
    ELSE [err |-> "IndexError", value |-> None]

\* Batch.get_job_hash(i=..., job_data=...): [err, hash]
Batch_get_job_hash(i, job_data) ==
    IF job_data.given
    THEN [err |-> "none", hash |-> md5(json_dumps(job_data.value))]
    ELSE IF ~i.given THEN [err |-> "Exception", hash |-> None]
    ELSE LET d == Batch_get_job_data(i.value)
         IN IF d.err # "none" THEN [err |-> d.err, hash |-> None]
            ELSE [err |-> "none", hash |-> md5(json_dumps(d.value))]

\* ------------------------------------------------------------------ parse_job_name

\* s.find(sep): the first position at which sep occurs in s, 0 if none
Find(s, sep) ==
    LET at == { k \in 1..(Len(s) - Len(sep) + 1) :
                    SubSeq(s, k, k + Len(sep) - 1) = sep }
    IN IF at = {} THEN 0 ELSE CHOOSE k \in at : \A m \in at : k <= m

\* s.split(sep)
RECURSIVE Split(_, _)
Split(s, sep) ==
    LET k == Find(s, sep)
    IN IF k = 0 THEN << s >>
       ELSE << SubSeq(s, 1, k - 1) >>
                \o Split(SubSeq(s, k + Len(sep), Len(s)), sep)

\* Batch._parse_name_token(token): bool(token) does not raise for a str, so
\* the except branches are never taken; bool of a str is its non-emptiness
parse_name_token(token) == BoolV(token # << >>)

\* job_data[key] = value on the sequence of a dict's items
RECURSIVE SetItem(_, _, _)
SetItem(items, key, value) ==
    IF items = << >> THEN << Item(key, value) >>
    ELSE IF Head(items).key = key THEN << Item(key, value) >> \o Tail(items)
    ELSE << Head(items) >> \o SetItem(Tail(items), key, value)

\* the for loop of parse_job_name over pairs, from the dict built so far;
\* key, value = pair.split('_') raises ValueError unless there are two parts
RECURSIVE ParsePairs(_, _)
ParsePairs(pairs, items) ==
    IF pairs = << >> THEN [err |-> "none", value |-> Dict(items)]
    ELSE LET parts == Split(Head(pairs), << "_" >>)
         IN IF Len(parts) # 2 THEN [err |-> "ValueError", value |-> Dict(<< >>)]
            ELSE ParsePairs(Tail(pairs),
                            SetItem(items, parts[1], parse_name_token(parts[2])))

\* Batch.parse_job_name(name): [err, value]
parse_job_name(name) == ParsePairs(Split(name, << "_", "_" >>), << >>)

\* ------------------------------------------------------------------ Batch completion

\* Batch.are_jobs_complete(indices)
are_jobs_complete(indices) ==
    [k \in 1..Len(indices) |-> Tracker_is_job_complete(indices[k])]

\* a filter that keeps the complete jobs instead
KeepComplete(complete) == complete

\* the positions of enumerate(completes) kept by the comprehension's filter
KeepRemaining(complete) == ~complete

\* Batch.get_remaining_jobs()
get_remaining_jobs ==
    LET completes == are_jobs_complete(Range(get_n_jobs))
        enumerate == [k \in 1..Len(completes) |-> << k - 1, completes[k] >>]
        kept == SelectSeq(enumerate, LAMBDA jc : KeepRemaining(jc[2]))
    IN [k \in 1..Len(kept) |-> kept[k][1]]

\* ------------------------------------------------------------------ execute_job

\* What the concrete execute_job(i) does: which of the output files of job i
\* it writes ("all", "none", or with several named outputs "some": the first
\* one only), and whether it then raises.
Outcomes(k) ==
    IF k = "sql" THEN [writes : { "none" }, raises : BOOLEAN]
    ELSE IF k = "file" THEN [writes : { "none", "all" }, raises : BOOLEAN]
    ELSE [writes : { "none", "some", "all" }, raises : BOOLEAN]

\* a job body that writes its output file(s) and returns normally
OkOutcome(k) == [writes |-> IF k = "sql" THEN "none" ELSE "all", raises |-> FALSE]

\* the files execute_job(i) writes under the tracker in use
JobWrites(i, writes) ==
    IF writes = "none" \/ kind = "sql" THEN {}
    ELSE IF kind = "file" THEN { FilePaths[i] }
    ELSE IF writes = "some" THEN { FirstOutputPaths[i] }
    ELSE MultifilePaths[i]

\* the row of job i a jobs table holds when a Batch is constructed over
\* it: none, a started row, or a started and ended row
StoredRows(i, stored) ==
    IF stored = "absent" THEN {}
    ELSE { [job_hash |-> JobHashes[i],
            start_time |-> "t1",
            end_time |-> IF stored = "started" THEN None ELSE "t2"] }

StoredTables ==
    { UNION { StoredRows(i, st[i]) : i \in Indices }
        : st \in [Indices -> { "absent", "started", "ended" }] }

\* ------------------------------------------------------------------ orchestration

Executors == { "serial", "parallel", "other" }

NoCalls == [phase |-> "none", starts |-> 0, execs |-> 0, ends |-> 0, raised |-> FALSE]

NoApi == [op |-> "none", i |-> 0, err |-> "none"]

\* no pure method has been called
NoRet == [op |-> "none", arg |-> << >>, val |-> << >>]

Init ==
    /\ args = NoArgs
    /\ ret = NoRet
    /\ kind \in { "file", "multifile", "sql" }
    /\ files = {}
    /\ table \in (IF kind = "sql" THEN StoredTables ELSE { {} })
    /\ outcome \in [Indices -> Outcomes(kind)]
    /\ pc = "idle"
    /\ executor = "none"
    /\ result = "none"
    /\ run = 0
    /\ remaining_jobs = <<>>
    /\ cursor = 0
    /\ job = [i \in Indices |-> NoCalls]
    /\ prev_ok = FALSE
    /\ api = NoApi

\* the set of the elements of a sequence
Elems(seq) == { seq[k] : k \in 1..Len(seq) }

\* an orchestrate_jobs without the circuit break
NoCircuitBreak(remaining) == FALSE

\* the circuit break of orchestrate_jobs: len(remaining_jobs) == 0
CircuitBreak(remaining) == Len(remaining) = 0

\* print_conclusion(jobs=...): done_jobs = len(jobs), and duration / done_jobs
\* divides by it (the elapsed time itself is taken to be positive)
print_conclusion(remaining) ==
    IF Len(remaining) = 0 THEN "ZeroDivisionError" ELSE "concluded"

\* the last orchestrate_jobs dispatched every remaining job, and every
\* execute_job wrote its output and returned normally
LastRunOk ==
    /\ result = "concluded"
    /\ \A i \in Elems(remaining_jobs) :
          /\ job[i].phase = "finished"
          /\ job[i].execs = 1
          /\ outcome[i] = OkOutcome(kind)
    /\ \A i \in Indices \ Elems(remaining_jobs) : job[i].execs = 0

\* orchestrate_jobs(executor=e) up to the dispatch; fix tells whether the
\* caller runs this batch with a repaired execute_job
OrchestrateJobs(e, fix) ==
    /\ pc = "idle"
    /\ run < MaxRuns
    /\ fix => run > 0
    /\ LET remaining == get_remaining_jobs
       IN /\ remaining_jobs' = remaining
          /\ IF CircuitBreak(remaining)
             THEN /\ pc' = "idle"
                  /\ result' = "all_complete"
                  /\ cursor' = 0
                  /\ job' = [i \in Indices |-> NoCalls]
             ELSE IF e = "serial"
             THEN /\ pc' = "serial"
                  /\ result' = "running"
                  /\ cursor' = 1
                  /\ job' = [i \in Indices |-> NoCalls]
             ELSE IF e = "parallel"
             \* futures = [executor.submit(self.run_job, i=job) for job in jobs]
             THEN /\ pc' = "parallel"
                  /\ result' = "running"
                  /\ cursor' = 0
                  /\ job' = [i \in Indices |->
                               IF i \in Elems(remaining)
                               THEN [NoCalls EXCEPT !.phase = "pending"]
                               ELSE NoCalls]
             ELSE /\ pc' = "idle"
                  /\ result' = "Exception"
                  /\ cursor' = 0
                  /\ job' = [i \in Indices |-> NoCalls]
    /\ run' = run + 1
    /\ executor' = e
    /\ prev_ok' = LastRunOk
    /\ outcome' = IF fix THEN [i \in Indices |-> OkOutcome(kind)] ELSE outcome
    /\ UNCHANGED << args, ret, kind, files, table, api >>

InFlight == { i \in Indices : job[i].phase \in { "start_job", "execute_job", "end_job" } }

\* a for loop over reversed(jobs)
SerialNextJobReversed == remaining_jobs[Len(remaining_jobs) + 1 - cursor]

\* serial_execute: the job the for loop over jobs yields next
SerialNextJob == remaining_jobs[cursor]

\* serial_execute: the for loop calls run_job(job) for the next job
SerialRunJob ==
    /\ pc = "serial"
    /\ InFlight = {}
    /\ cursor <= Len(remaining_jobs)
    /\ job' = [job EXCEPT ![SerialNextJob].phase = "start_job"]
    /\ UNCHANGED << args, ret, kind, files, table, outcome, pc, executor, result, run,
                    remaining_jobs, cursor, prev_ok, api >>

\* serial_execute returned: print_conclusion, and orchestrate_jobs returns
SerialConclude ==
    /\ pc = "serial"
    /\ InFlight = {}
    /\ cursor > Len(remaining_jobs)
    /\ pc' = "idle"
    /\ result' = print_conclusion(remaining_jobs)
    /\ UNCHANGED << args, ret, kind, files, table, outcome, executor, run,
                    remaining_jobs, cursor, job, prev_ok, api >>

\* the pool hands its workers the submitted calls in submission order
NextPending(i) ==
    \E k \in 1..Len(remaining_jobs) :
        /\ remaining_jobs[k] = i
        /\ job[i].phase = "pending"
        /\ \A m \in 1..(k - 1) : job[remaining_jobs[m]].phase # "pending"

\* parallel_execute: a free worker of the pool takes the next submitted run_job
ParallelRunJob(i) ==
    /\ pc = "parallel"
    /\ NextPending(i)
    /\ Cardinality(InFlight) < NProcesses
    /\ job' = [job EXCEPT ![i].phase = "start_job"]
    /\ UNCHANGED << args, ret, kind, files, table, outcome, pc, executor, result, run,
                    remaining_jobs, cursor, prev_ok, api >>

\* a parallel_execute that returns once one future is done and does not
\* wait for the pool to shut down
FirstFutureDone ==
    \E i \in Elems(remaining_jobs) : job[i].phase \in { "finished", "failed" }

\* parallel_execute: the loop over as_completed(futures) has yielded every
\* future, and the with block of the pool has shut it down
AllFuturesDone ==
    \A i \in Elems(remaining_jobs) : job[i].phase \in { "finished", "failed" }

\* parallel_execute: as_completed has yielded every future (the futures'
\* results are never read); print_conclusion, and orchestrate_jobs returns
ParallelConclude ==
    /\ pc = "parallel"
    /\ AllFuturesDone
    /\ pc' = "idle"
    /\ result' = print_conclusion(remaining_jobs)
    /\ UNCHANGED << args, ret, kind, files, table, outcome, executor, run,
                    remaining_jobs, cursor, job, prev_ok, api >>

\* run_job: self.start_job(i=i), which is Batch.start_job: pass
StartJob(i) ==
    /\ pc \in { "serial", "parallel" }
    /\ job[i].phase = "start_job"
    /\ job' = [job EXCEPT ![i].phase = "execute_job", ![i].starts = @ + 1]
    /\ UNCHANGED << args, ret, kind, files, table, outcome, pc, executor, result, run,
                    remaining_jobs, cursor, prev_ok, api >>

\* a run_job that calls end_job in a finally clause
AfterExecuteFinally(raises) == "end_job"

\* where run_job goes after execute_job: on to end_job, or out with the
\* exception
AfterExecute(raises) == IF raises THEN "failed" ELSE "end_job"

\* run_job: self.execute_job(i=i). In serial_execute an exception leaves
\* the for loop and orchestrate_jobs; in parallel_execute it stays in the
\* future.
ExecuteJob(i) ==
    /\ pc \in { "serial", "parallel" }
    /\ job[i].phase = "execute_job"
    /\ files' = files \cup JobWrites(i, outcome[i].writes)
    /\ job' = [job EXCEPT ![i].phase = AfterExecute(outcome[i].raises),
                          ![i].execs = @ + 1,
                          ![i].raised = outcome[i].raises]
    /\ IF pc = "serial" /\ outcome[i].raises
       THEN pc' = "idle" /\ result' = "ExecutionError"
       ELSE UNCHANGED << pc, result >>
    /\ UNCHANGED << args, ret, kind, table, outcome, executor, run,
                    remaining_jobs, cursor, prev_ok, api >>

\* run_job: self.end_job(i=i), which is Batch.end_job: pass
EndJob(i) ==
    /\ pc \in { "serial", "parallel" }
    /\ job[i].phase = "end_job"
    /\ job' = [job EXCEPT ![i].phase = "finished", ![i].ends = @ + 1]
    /\ cursor' = IF pc = "serial" THEN cursor + 1 ELSE cursor
    /\ UNCHANGED << args, ret, kind, files, table, outcome, pc, executor, result, run,
                    remaining_jobs, prev_ok, api >>

Next ==
    \/ \E e \in Executors, fix \in BOOLEAN : OrchestrateJobs(e, fix)
    \/ SerialRunJob
    \/ SerialConclude
    \/ \E i \in Indices : ParallelRunJob(i)
    \/ ParallelConclude
    \/ \E i \in Indices : StartJob(i)
    \/ \E i \in Indices : ExecuteJob(i)
    \/ \E i \in Indices : EndJob(i)

Spec == Init /\ [][Next]_vars

\* ------------------------------------------------------------------ direct Tracker calls

\* SqlTracker.start_job(i): toolsql.insert of a row whose job_hash is the
\* table's primary key
SqlStartJob(i) ==
    /\ kind = "sql"
    /\ pc = "idle"
    /\ \E t \in Times :
        LET row == [job_hash |-> JobHashes[i],
                    start_time |-> t, end_time |-> None]
        IN IF \E r \in table : r.job_hash = row.job_hash
           THEN /\ api' = [op |-> "start_job", i |-> i, err |-> "IntegrityError"]
                /\ table' = table
           ELSE /\ api' = [op |-> "start_job", i |-> i, err |-> "none"]
                /\ table' = table \cup { row }
    /\ UNCHANGED << args, ret, kind, files, outcome, pc, executor, result, run,
                    remaining_jobs, cursor, job, prev_ok >>

\* SqlTracker.end_job(i): toolsql.update of the rows whose job_hash matches
SqlEndJob(i) ==
    /\ kind = "sql"
    /\ pc = "idle"
    /\ \E t \in Times :
        LET h == JobHashes[i]
        IN table' = { IF r.job_hash = h THEN [r EXCEPT !.end_time = t] ELSE r
                        : r \in table }
    /\ api' = [op |-> "end_job", i |-> i, err |-> "none"]
    /\ UNCHANGED << args, ret, kind, files, outcome, pc, executor, result, run,
                    remaining_jobs, cursor, job, prev_ok >>

\* SqlTracker.delete_job_records(indices=[i]) or (job_datas=[job_data]):
\* get_job_hashes, then toolsql.delete with where_in={'job_hash': [job_hashes]},
\* whose only element is the list of hashes itself, which no job_hash equals
SqlDeleteJobRecords(i, by) ==
    /\ kind = "sql"
    /\ pc = "idle"
    /\ LET hs == IF by = "indices"
                 THEN get_job_hashes(Given(<< i >>), NoneArg)
                 ELSE get_job_hashes(NoneArg, Given(<< get_job_data(i) >>))
       IN /\ api' = [op |-> "delete_job_records", i |-> i, err |-> hs.err]
          /\ table' = table
    /\ UNCHANGED << args, ret, kind, files, outcome, pc, executor, result, run,
                    remaining_jobs, cursor, job, prev_ok >>

\* the paths the trackers look at
OutputPaths ==
    IF kind = "file" THEN { FilePaths[i] : i \in Indices }
    ELSE IF kind = "multifile" THEN UNION { MultifilePaths[i] : i \in Indices }
    ELSE {}

\* a job body, or anything else, writes an output file
WriteFile(p) ==
    /\ pc = "idle"
    /\ p \in OutputPaths \ files
    /\ files' = files \cup { p }
    /\ UNCHANGED << args, ret, kind, table, outcome, pc, executor, result, run,
                    remaining_jobs, cursor, job, prev_ok, api >>

\* an output file is deleted
DeleteFile(p) ==
    /\ pc = "idle"
    /\ p \in files
    /\ files' = files \ { p }
    /\ UNCHANGED << args, ret, kind, table, outcome, pc, executor, result, run,
                    remaining_jobs, cursor, job, prev_ok, api >>

InitTracker ==
    /\ Init
    /\ table = {}
    /\ outcome = [i \in Indices |-> OkOutcome(kind)]

NextTracker ==
    \/ \E i \in Indices : SqlStartJob(i)
    \/ \E i \in Indices : SqlEndJob(i)
    \/ \E i \in Indices, by \in { "indices", "job_datas" } : SqlDeleteJobRecords(i, by)
    \/ \E p \in OutputPaths : WriteFile(p)
    \/ \E p \in OutputPaths : DeleteFile(p)

SpecTracker == InitTracker /\ [][NextTracker]_vars

\* ------------------------------------------------------------------ construction

\* before a tracker is constructed
InitCreate ==
    /\ args = NoArgs
    /\ ret = NoRet
    /\ kind = "none"
    /\ files = {}
    /\ table = {}
    /\ outcome = [i \in Indices |-> OkOutcome("file")]
    /\ pc = "idle"
    /\ executor = "none"
    /\ result = "none"
    /\ run = 0
    /\ remaining_jobs = <<>>
    /\ cursor = 0
    /\ job = [i \in Indices |-> NoCalls]
    /\ prev_ok = FALSE
    /\ api = NoApi

\* trackers.create_tracker(**a) called directly; after a call that raised,
\* the caller may call again
CreateTracker(a) ==
    /\ kind = "none"
    /\ \E r \in create_tracker(a) :
          /\ args' = a
          /\ kind' = r.tracker
          /\ api' = [op |-> "create_tracker", i |-> 0, err |-> r.err]
    /\ UNCHANGED << ret, files, table, outcome, pc, executor, result, run,
                    remaining_jobs, cursor, job, prev_ok >>

\* Batch(**a): __init__ hands create_tracker its tracker, output_dir,
\* output_filetype, db_config and bucket_path arguments, and not outputs,
\* which create_tracker then takes at its default None
BatchInit(a) ==
    /\ kind = "none"
    /\ \E r \in create_tracker([a EXCEPT !.outputs = None]) :
          /\ args' = a
          /\ kind' = r.tracker
          /\ api' = [op |-> "Batch", i |-> 0, err |-> r.err]
    /\ UNCHANGED << ret, files, table, outcome, pc, executor, result, run,
                    remaining_jobs, cursor, job, prev_ok >>

NextCreate ==
    \/ \E a \in TrackerArgs : CreateTracker(a)
    \/ \E a \in TrackerArgs : BatchInit(a)

SpecCreate == InitCreate /\ [][NextCreate]_vars

\* ------------------------------------------------------------------ pure methods

\* the keys and values of the job datas the methods are called with
Keys == { << "i", "d" >>, << "n" >> }

Values ==
    { StrV(<< "x" >>), StrV(<< "y" >>), StrV(<< "x", "_", "_", "n", "_", "y" >>),
      IntV(5), BoolV(TRUE), ListV }

\* dicts over Keys, in every insertion order
JobDatas ==
    { Dict(<< >>) }
        \cup { Dict(<< Item(k, v) >>) : k \in Keys, v \in Values }
        \cup { Dict(<< Item(kv[1], kv[2]), Item(kv[3], kv[4]) >>) :
                    kv \in { q \in Keys \X Values \X Keys \X Values : q[1] # q[3] } }

\* the names parse_job_name is called with: one or two tokens
NameTokens ==
    { << "n", "_", "5" >>, << "i", "d", "_", "a" >>,
      << "i", "d", "_", "a", "_", "b" >>, << "o", "k", "_", "T", "r", "u", "e" >>,
      << "x" >> }

Names ==
    NameTokens \cup { t[1] \o << "_", "_" >> \o t[2] : t \in NameTokens \X NameTokens }

\* batch.get_job_name(job_data=d)
GetJobName(d) ==
    /\ pc = "idle"
    /\ ret = NoRet
    /\ ret' = [op |-> "get_job_name", arg |-> d, val |-> get_job_name(d, << >>)]
    /\ UNCHANGED << args, kind, files, table, outcome, pc, executor, result, run,
                    remaining_jobs, cursor, job, prev_ok, api >>

\* the name and the hash of two job datas
GetJobKeys(d1, d2) ==
    /\ pc = "idle"
    /\ ret = NoRet
    /\ ret' = [op |-> "get_job_keys", arg |-> << d1, d2 >>,
               val |-> [names |-> << get_job_name(d1, << >>), get_job_name(d2, << >>) >>,
                        hashes |-> << Batch_get_job_hash(NoneArg, Given(d1)),
                                      Batch_get_job_hash(NoneArg, Given(d2)) >>]]
    /\ UNCHANGED << args, kind, files, table, outcome, pc, executor, result, run,
                    remaining_jobs, cursor, job, prev_ok, api >>

\* batch.get_job_hash(i) and batch.get_job_hash(job_data=batch.get_job_data(i))
GetJobHash(i) ==
    /\ pc = "idle"
    /\ ret = NoRet
    /\ ret' = [op |-> "get_job_hash", arg |-> i,
               val |-> << Batch_get_job_hash(Given(i), NoneArg),
                          Batch_get_job_hash(NoneArg, Given(get_job_data(i))) >>]
    /\ UNCHANGED << args, kind, files, table, outcome, pc, executor, result, run,
                    remaining_jobs, cursor, job, prev_ok, api >>

\* batch.get_job_data(i)
GetJobData(i) ==
    /\ pc = "idle"
    /\ ret = NoRet
    /\ ret' = [op |-> "get_job_data", arg |-> i, val |-> Batch_get_job_data(i)]
    /\ UNCHANGED << args, kind, files, table, outcome, pc, executor, result, run,
                    remaining_jobs, cursor, job, prev_ok, api >>

\* batch.parse_job_name(name)
ParseJobName(name) ==
    /\ pc = "idle"
    /\ ret = NoRet
    /\ ret' = [op |-> "parse_job_name", arg |-> name, val |-> parse_job_name(name)]
    /\ UNCHANGED << args, kind, files, table, outcome, pc, executor, result, run,
                    remaining_jobs, cursor, job, prev_ok, api >>

\* a Batch with the explicit job list and a FileTracker; the methods are
\* pure, so every behaviour makes one call
InitPure ==
    /\ InitTracker
    /\ kind = "file"

NextPure ==
    \/ \E d \in JobDatas : GetJobName(d)
    \/ \E d1, d2 \in JobDatas : GetJobKeys(d1, d2)
    \/ \E i \in Indices : GetJobHash(i)
    \/ \E i \in (0 - NJobs - 1)..(NJobs + 1) : GetJobData(i)
    \/ \E name \in Names : ParseJobName(name)

SpecPure == InitPure /\ [][NextPure]_vars

\* ------------------------------------------------------------------ fairness

\* Every enabled step of orchestrate_jobs is eventually taken: the calling
\* thread runs serial_execute, and the pool of parallel_execute runs every
\* job submitted to it.
RunStep ==
    \/ SerialRunJob
    \/ SerialConclude
    \/ \E i \in Indices : ParallelRunJob(i)
    \/ ParallelConclude
    \/ \E i \in Indices : StartJob(i)
    \/ \E i \in Indices : ExecuteJob(i)
    \/ \E i \in Indices : EndJob(i)

FairSpec == Spec /\ WF_vars(RunStep)

\* ------------------------------------------------------------------ properties

\* the indices the tracker reports complete
CompleteJobs == { i \in Indices : Tracker_is_job_complete(i) }

\* an orchestrate_jobs call with a known executor has ended after dispatching
RunEnded == pc = "idle" /\ result \in { "concluded", "ExecutionError" }

\* C1: after an orchestrate run in which every execute_job returned normally
\* (and wrote its output), get_remaining_jobs() is empty, and the next
\* orchestrate run against the same backend invokes execute_job zero times.
C1_Idempotent ==
    /\ (pc = "idle" /\ LastRunOk) => get_remaining_jobs = <<>>
    /\ (pc = "idle" /\ prev_ok) => \A i \in Indices : job[i].execs = 0

\* C2: run_job(i) performs the tracker's start_job(i), then execute_job(i),
\* then the tracker's end_job(i): with a SqlTracker the row of job i has a
\* start_time when execute_job(i) begins, and an end_time once run_job(i)
\* has finished.
C2_StartExecuteEnd ==
    \A i \in Indices :
        /\ job[i].phase = "execute_job" =>
              /\ job[i].starts = 1 /\ job[i].execs = 0
              /\ kind = "sql" => SqlTracker_get_job_start_time(i) # None
        /\ job[i].phase = "finished" =>
              /\ job[i].starts = 1 /\ job[i].execs = 1 /\ job[i].ends = 1
              /\ kind = "sql" => SqlTracker_get_job_end_time(i) # None

\* C3 as stated: if execute_job(i) raised inside run_job(i), end_job(i) is
\* not called and the tracker reports job i as incomplete.
C3_RaiseLeavesIncomplete ==
    \A i \in Indices :
        job[i].raised => job[i].ends = 0 /\ ~Tracker_is_job_complete(i)

\* C3 amended: if execute_job(i) raised inside run_job(i), end_job(i) is
\* not called and run_job(i) is over, and the tracker reports job i as
\* complete only if execute_job(i) itself wrote the output file(s) of job i
\* before it raised.
C3_RaiseRecordsNoEnd ==
    \A i \in Indices :
        job[i].raised =>
            /\ job[i].ends = 0
            /\ job[i].phase = "failed"
            /\ Tracker_is_job_complete(i) => outcome[i].writes = "all"

\* a parallel run has ended in which a job raised without writing and is
\* still incomplete, while another job ran to its end
C3_Witness ==
    /\ RunEnded /\ executor = "parallel"
    /\ \E i, j \in Indices :
          /\ job[i].raised /\ outcome[i].writes # "all" /\ ~Tracker_is_job_complete(i)
          /\ job[j].phase = "finished"

\* C4: when execute_job raises for one remaining job, run_job is still
\* performed for every other remaining job of that orchestrate run, in
\* serial and in parallel mode.
C4_FailureDoesNotAbort ==
    RunEnded => \A i \in Elems(remaining_jobs) : job[i].starts = 1

\* C5: during one orchestrate run execute_job is invoked exactly once for
\* each index reported incomplete at the start of the run and never for an
\* index reported complete.
C5_ExactlyOnce ==
    /\ \A i \in Indices : job[i].execs <= 1
    /\ \A i \in Indices \ Elems(remaining_jobs) : job[i].execs = 0
    /\ RunEnded => \A i \in Elems(remaining_jobs) : job[i].execs = 1

\* C6: the tracker's start_job(i) on a backend that already holds a
\* started-but-unfinished record of job i does not fail because of that
\* record.
C6_RestartAfterFailure ==
    ~(/\ api.op = "start_job"
      /\ api.err # "none"
      /\ SqlTracker_get_job_start_time(api.i) # None
      /\ SqlTracker_get_job_end_time(api.i) = None)

\* C7: Batch.get_remaining_jobs() is exactly the indices i of 0..n-1 with
\* is_job_complete(i) false, ascending and without duplicates; for a
\* FileTracker over an empty directory it is [0, 1, 2, ...], and once only
\* the file of job 1 exists it is [0, 2, ...].
C7_RemainingJobs ==
    LET r == get_remaining_jobs
    IN /\ \A k \in 1..Len(r) : r[k] \in Indices /\ ~Tracker_is_job_complete(r[k])
       /\ \A i \in Indices : ~Tracker_is_job_complete(i) => i \in Elems(r)
       /\ \A k \in 1..(Len(r) - 1) : r[k] < r[k + 1]
       /\ (kind = "file" /\ files = {}) => r = Range(get_n_jobs)
       /\ (kind = "file" /\ files = { FilePaths[1] })
             => r = SelectSeq(Range(get_n_jobs), LAMBDA i : i # 1)

\* only the output file of job 1 exists under a FileTracker
C7_Witness ==
    /\ kind = "file"
    /\ files = { FilePaths[1] }
    /\ Len(get_remaining_jobs) = get_n_jobs - 1

\* C8: the tracker's own get_remaining_jobs() returns the indices of
\* 0..n-1 whose is_job_complete is false, for every tracker variant and
\* every state of its storage.
C8_TrackerRemaining ==
    /\ Tracker_get_remaining_jobs.err = "none"
    /\ Tracker_get_remaining_jobs.value
          = SelectSeq(Range(get_n_jobs), LAMBDA i : ~Tracker_is_job_complete(i))

\* C9: an orchestrate_jobs call made when no job is remaining returns at
\* once, without any start_job, execute_job or end_job call, and leaves the
\* tracker's storage unchanged.
C9_ShortCircuit ==
    [][ (run' = run + 1 /\ \A i \in Indices : Tracker_is_job_complete(i))
          => /\ pc' = "idle"
             /\ result' = "all_complete"
             /\ files' = files
             /\ table' = table
             /\ \A i \in Indices : job'[i] = NoCalls ]_vars

\* a second orchestrate_jobs found every job complete and returned
C9_Witness ==
    /\ run = 2 /\ pc = "idle" /\ result = "all_complete"
    /\ CompleteJobs = Indices
    /\ files # {}

\* the set of jobs a run on a fresh tracker (no file, no row) marks complete
\* when every remaining job is run: the jobs whose execute_job writes all of
\* its output
WritingJobs == { i \in Indices : outcome[i].writes = "all" }

\* a parallel run on a fresh tracker marks exactly the writing jobs complete
ParallelMarksWritingJobs ==
    (run = 1 /\ table = {} /\ RunEnded /\ executor = "parallel")
        => CompleteJobs = WritingJobs

\* C10: on a fresh tracker and with the same execute_job outcomes, the set
\* of jobs marked complete after a full orchestrate run is the same for
\* executor serial as for executor parallel (which is WritingJobs).
C10_SerialParallelSameSet ==
    (run = 1 /\ table = {} /\ RunEnded) => CompleteJobs = WritingJobs

\* C11: in parallel mode the conclusion is reported, and orchestrate_jobs
\* returns, only after every dispatched run_job has finished: no job is
\* pending or running once the parallel run has returned, and the run has
\* not returned while one is.
C11_ConclusionAfterAllJobs ==
    /\ (executor = "parallel" /\ pc = "idle" /\ result # "all_complete")
          => \A i \in Elems(remaining_jobs) :
                /\ job[i].phase \in { "finished", "failed" }
                /\ job[i].execs = 1
    /\ (\E i \in Indices : job[i].phase = "pending" \/ i \in InFlight)
          => (pc # "idle" \/ executor = "serial")

\* a parallel run has concluded after one job failed and another finished
C11_Witness ==
    /\ executor = "parallel" /\ pc = "idle" /\ result = "concluded"
    /\ \E i, j \in Elems(remaining_jobs) :
          job[i].phase = "failed" /\ job[j].phase = "finished"

\* the jobs whose exception reached the caller of orchestrate_jobs; the
\* framework writes no log, so an exception surfaces only by propagating
SurfacedFailures ==
    IF result = "ExecutionError" THEN { i \in Indices : job[i].raised } ELSE {}

\* C12: a parallel run in which every execute_job returned or raised has
\* returned without deadlock and without a per-job error leaving the
\* dispatch loop, and no job's failure was silently swallowed.
C12_ParallelFailureNotSwallowed ==
    (executor = "parallel" /\ pc = "idle" /\ AllFuturesDone /\ run > 0)
        => /\ result \in { "concluded", "all_complete" }
           /\ \A i \in Indices : job[i].raised => i \in SurfacedFailures

\* C13: in serial mode the remaining indices are run in the order of
\* remaining_jobs, one at a time: a job has begun only if every job before
\* it in remaining_jobs has finished, and at most one job is in flight.
C13_SerialOrder ==
    (executor = "serial" /\ result # "all_complete") =>
        /\ Cardinality(InFlight) <= 1
        /\ \A i \in Indices : job[i].phase # "pending"
        /\ \A i \in Indices \ Elems(remaining_jobs) : job[i].phase = "none"
        /\ \A m \in 1..Len(remaining_jobs) :
              job[remaining_jobs[m]].phase # "none"
                  => \A k \in 1..(m - 1) : job[remaining_jobs[k]].phase = "finished"

\* a serial run is in the middle of its second job, the first has finished
\* and a third has not begun
C13_Witness ==
    /\ executor = "serial" /\ pc = "serial" /\ Len(remaining_jobs) >= 3
    /\ job[remaining_jobs[1]].phase = "finished"
    /\ job[remaining_jobs[2]].phase = "end_job"
    /\ job[remaining_jobs[3]].phase = "none"

\* the termination half of C12, under FairSpec: a parallel run in which
\* every execute_job returns or raises returns
ParallelReturns == (pc = "parallel") ~> (pc = "idle")

\* C14: for a job with no row, start_job(i) succeeds and leaves a row with a
\* null end_time, so the job is incomplete; end_job(i) on a job with a row
\* makes it complete; and a complete job stays complete under start_job and
\* end_job of other jobs.
C14_SqlLifecycle ==
    [][ kind = "sql" =>
          \A i \in Indices :
            /\ ( /\ api'.op = "start_job" /\ api'.i = i
                 /\ SqlTracker_get_job_start_time(i) = None )
                  => /\ api'.err = "none"
                     /\ SqlTracker_get_job_start_time(i)' # None
                     /\ SqlTracker_get_job_end_time(i)' = None
                     /\ ~SqlTracker_is_job_complete(i)'
            /\ ( /\ api'.op = "end_job" /\ api'.i = i
                 /\ SqlTracker_get_job_start_time(i) # None )
                  => SqlTracker_is_job_complete(i)'
            /\ ( /\ api'.op \in { "start_job", "end_job" } /\ api'.i # i
                 /\ SqlTracker_is_job_complete(i) )
                  => SqlTracker_is_job_complete(i)' ]_vars

\* job 0 was started and ended and is complete, and start_job(1) has since
\* inserted the row of job 1, which is incomplete
C14_Witness ==
    /\ kind = "sql"
    /\ api = [op |-> "start_job", i |-> 1, err |-> "none"]
    /\ SqlTracker_is_job_complete(0)
    /\ SqlTracker_get_job_start_time(1) # None
    /\ ~SqlTracker_is_job_complete(1)

\* C15: end_job(i) for a job that has no row ends with an error.
C15_EndWithoutStartFails ==
    ( /\ kind = "sql" /\ api.op = "end_job"
      /\ SqlTracker_get_job_start_time(api.i) = None )
        => api.err # "none"

\* C16: after delete_job_records for job i, given by index or by job data,
\* the row of job i is gone and the job is not complete.
C16_DeleteRemovesRows ==
    (kind = "sql" /\ api.op = "delete_job_records")
        => /\ SqlTracker_get_job_start_time(api.i) = None
           /\ ~SqlTracker_is_job_complete(api.i)

\* the path of the file of job i for a named output: the directory of the
\* output, the job name with the output's name among its tokens, the filetype
NamedOutputPath(i, output_name) ==
    << "o", "u", "t", "_" >> \o output_name \o << "/" >>
        \o << "j", "o", "b", "s", "i", "d", "_", JobIds[i + 1], "_", "_" >>
        \o << "o", "u", "t", "p", "u", "t", "_", "n", "a", "m", "e", "_" >>
        \o output_name \o << ".", "j", "s", "o", "n" >>

\* C17: MultifileTracker.is_job_complete(i) is true exactly when the file of
\* every named output of job i exists.
C17_AllOutputsExist ==
    kind = "multifile" =>
        \A i \in Indices :
            MultifileTracker_is_job_complete(i)
                <=> \A k \in 1..Len(OutputNames) :
                        NamedOutputPath(i, OutputNames[k]) \in files

\* job 0 has its second output but not its first and is incomplete, while
\* job 1 has both and is complete
C17_Witness ==
    /\ kind = "multifile"
    /\ NamedOutputPath(0, OutputNames[2]) \in files
    /\ NamedOutputPath(0, OutputNames[1]) \notin files
    /\ ~MultifileTracker_is_job_complete(0)
    /\ NamedOutputPath(1, OutputNames[1]) \in files
    /\ NamedOutputPath(1, OutputNames[2]) \in files
    /\ MultifileTracker_is_job_complete(1)

\* {output_dir}/{job_name(i)}.{output_filetype}
JobFilePath(i) ==
    << "o", "u", "t", "/" >>
        \o << "j", "o", "b", "s", "i", "d", "_", JobIds[i + 1] >>
        \o << ".", "j", "s", "o", "n" >>

\* C18: FileTracker.is_job_complete(i) is true while the file of job i
\* exists and false while it does not, whatever happens to the files of
\* other jobs: a step that leaves the file of job i in place leaves the job
\* complete, and a step that deletes it makes the job incomplete.
C18_FileCompleteWhileFileExists ==
    [][ kind = "file" =>
          \A i \in Indices :
            /\ FileTracker_is_job_complete(i) <=> JobFilePath(i) \in files
            /\ FileTracker_is_job_complete(i)' <=> JobFilePath(i) \in files'
            /\ (FileTracker_is_job_complete(i) /\ JobFilePath(i) \in files')
                  => FileTracker_is_job_complete(i)' ]_vars

\* the file of job 0 exists and job 0 is complete, the file of job 1 does not
C18_Witness ==
    /\ kind = "file"
    /\ JobFilePath(0) \in files /\ FileTracker_is_job_complete(0)
    /\ JobFilePath(1) \notin files /\ ~FileTracker_is_job_complete(1)
    /\ JobFilePath(2) \in files

\* the tracker holds no record of job i: no output file, no row
HasNoRecord(i) ==
    IF kind = "file" THEN FilePaths[i] \notin files
    ELSE IF kind = "multifile" THEN \A p \in MultifilePaths[i] : p \notin files
    ELSE \A r \in table : r.job_hash # JobHashes[i]

\* C19: for a job with no record, get_job_start_time(i) and
\* get_job_end_time(i) return None and do not raise, under every tracker.
C19_NoRecordNoTimes ==
    \A i \in Indices :
        HasNoRecord(i) =>
            /\ Tracker_get_job_start_time(i) = [err |-> "none", value |-> None]
            /\ Tracker_get_job_end_time(i) = [err |-> "none", value |-> None]

\* construction raised and built no tracker
ConstructionFailed == api.err # "none" /\ kind = "none"

\* C20: with no kind named, output_dir and output_filetype together give a
\* FileTracker, otherwise db_config gives a SqlTracker, otherwise
\* construction fails; with a kind named and a parameter it requires
\* missing, construction fails.
C20_CreateTracker ==
    api.op = "create_tracker" =>
        /\ args.tracker = None =>
              IF args.output_dir # None /\ args.output_filetype # None
              THEN kind = "file" /\ api.err = "none"
              ELSE IF args.db_config # None
              THEN kind = "sql" /\ api.err = "none"
              ELSE ConstructionFailed
        /\ ( /\ args.tracker = "file"
             /\ (args.output_dir = None \/ args.output_filetype = None) )
              => ConstructionFailed
        /\ (args.tracker = "multifile" /\ args.outputs = None)
              => ConstructionFailed
        /\ (args.tracker = "sql" /\ args.db_config = None)
              => ConstructionFailed

\* create_tracker was given output_dir, output_filetype and db_config and
\* no kind, and built a FileTracker
C20_Witness ==
    /\ api = [op |-> "create_tracker", i |-> 0, err |-> "none"]
    /\ args.tracker = None
    /\ args.output_dir # None /\ args.output_filetype # None
    /\ args.db_config # None
    /\ kind = "file"

\* C21: constructing a Batch with tracker kind 'multifile' and named
\* outputs, each with its directory and filetype, succeeds and gives the
\* Batch a MultifileTracker.
C21_BatchMultifile ==
    ( /\ api.op = "Batch"
      /\ args.tracker = "multifile"
      /\ args.outputs = "specs" )
        => (api.err = "none" /\ kind = "multifile")

\* every value of the dict is a str, an int or a bool
AllScalar(d) == \A k \in 1..Len(d.items) : IsScalar(d.items[k].value)

\* the key/value pairs of a dict, whatever their insertion order
ItemSet(d) == { d.items[k] : k \in 1..Len(d.items) }

\* C22: get_job_name returns a name for every dict whose values are all
\* strings, integers or booleans, and fails with NotImplementedError, the
\* unsupported-job-data error, exactly when some value is not such a scalar.
C22_NameOfScalarJobData ==
    ret.op = "get_job_name" =>
        IF AllScalar(ret.arg)
        THEN ret.val.err = "none"
        ELSE ret.val.err = "NotImplementedError"

\* C23: two job datas with scalar values that differ in a value, and for
\* which get_job_name returns names, have different names and different
\* hashes.
C23_DistinctJobsDistinctKeys ==
    ( /\ ret.op = "get_job_keys"
      /\ AllScalar(ret.arg[1]) /\ AllScalar(ret.arg[2])
      /\ ItemSet(ret.arg[1]) # ItemSet(ret.arg[2])
      /\ ret.val.names[1].err = "none" /\ ret.val.names[2].err = "none" )
        => /\ ret.val.names[1].name # ret.val.names[2].name
           /\ ret.val.hashes[1].hash # ret.val.hashes[2].hash

\* C24: get_job_hash gives two mappings with the same key/value pairs the
\* same digest whatever the insertion order of their keys, and
\* get_job_hash(i) equals get_job_hash(job_data=get_job_data(i)).
C24_HashOrderIndependent ==
    /\ (ret.op = "get_job_keys" /\ ItemSet(ret.arg[1]) = ItemSet(ret.arg[2]))
          => /\ ret.val.hashes[1].err = "none"
             /\ ret.val.hashes[1] = ret.val.hashes[2]
    /\ ret.op = "get_job_hash"
          => /\ ret.val[1].err = "none"
             /\ ret.val[1] = ret.val[2]
             /\ ret.val[1].hash = JobHashes[ret.arg]

\* two dicts with the same two items in opposite insertion orders were
\* hashed to the same digest
C24_Witness ==
    /\ ret.op = "get_job_keys"
    /\ Len(ret.arg[1].items) = 2
    /\ ret.arg[1] # ret.arg[2]
    /\ ItemSet(ret.arg[1]) = ItemSet(ret.arg[2])
    /\ ret.val.hashes[1].err = "none"
    /\ ret.val.hashes[1].hash = ret.val.hashes[2].hash

\* C25: when the subclass does not override execute_job, so that every
\* execute_job raises NotImplementedError and writes nothing, a serial or
\* parallel run that had jobs to run ends with that error reaching the
\* caller of orchestrate_jobs.
C25_MissingOverrideReachesCaller ==
    ( /\ RunEnded
      /\ \A i \in Indices : outcome[i] = [writes |-> "none", raises |-> TRUE] )
        => result = "ExecutionError"

\* C26: get_job_data(i) returns the i-th job's data for i in [0, n) and
\* fails with IndexError for every other integer i, negative ones included.
C26_GetJobDataIndex ==
    ret.op = "get_job_data" =>
        IF ret.arg >= 0 /\ ret.arg < get_n_jobs
        THEN ret.val = [err |-> "none", value |-> jobs[ret.arg + 1]]
        ELSE ret.val.err = "IndexError"

\* int(s) for a str of decimal digits
RECURSIVE StrToNat(_)
StrToNat(s) ==
    IF s = << >> THEN 0
    ELSE 10 * StrToNat(SubSeq(s, 1, Len(s) - 1))
            + (CHOOSE n \in 0..9 : Digits[n + 1] = s[Len(s)])

\* a token's value as a boolean if it denotes one, else as an integer if it
\* denotes one, else as the string it is
Coerced(v) ==
    IF v = << "T", "r", "u", "e" >> THEN BoolV(TRUE)
    ELSE IF v = << "F", "a", "l", "s", "e" >> THEN BoolV(FALSE)
    ELSE IF v # << >> /\ \A k \in 1..Len(v) : \E n \in 1..10 : Digits[n] = v[k]
    THEN IntV(StrToNat(v))
    ELSE StrV(v)

\* the items of the tokens, each split on its first underscore
RECURSIVE TokenItems(_, _)
TokenItems(tokens, items) ==
    IF tokens = << >> THEN items
    ELSE LET t == Head(tokens)
             k == Find(t, << "_" >>)
         IN TokenItems(Tail(tokens),
                       SetItem(items, SubSeq(t, 1, k - 1),
                               Coerced(SubSeq(t, k + 1, Len(t)))))

\* C27: parse_job_name splits the name on '__' into tokens, splits each
\* token on its first underscore into key and value, and coerces the value
\* to a boolean, else an integer, else leaves it a string.
C27_ParseJobName ==
    LET tokens == Split(ret.arg, << "_", "_" >>)
    IN ( /\ ret.op = "parse_job_name"
         /\ \A k \in 1..Len(tokens) : Find(tokens[k], << "_" >>) # 0 )
            => ret.val = [err |-> "none", value |-> Dict(TokenItems(tokens, << >>))]

====
